---- MODULE Spec2Model ----
(***************************************************************************)
(* Model of the two Ansible modules of the collection:                     *)
(*   plugins/modules/panos_ha.py          (main, setup_args)               *)
(*   plugins/modules/panos_gre_tunnel.py  (main)                           *)
(* One invocation of a module is a run: the argument parsing, the fetch of *)
(* the remote listing, the construction of the desired object tree, the    *)
(* apply step, the optional commit and the exit.  Two runs in succession   *)
(* with the same caller arguments act on the same device.                  *)
(***************************************************************************)
EXTENDS Integers, Sequences, FiniteSets, TLC

VARIABLES
    module,       \* which module is invoked: "panos_ha" or "panos_gre_tunnel"
    args,         \* the options the caller supplies (None: not supplied)
    run,          \* number of the current invocation, 1..MaxRuns
    pc,           \* position of the current invocation in main()
    params,       \* module.params
    device,       \* the device's working configuration: the objects in scope
    saved,        \* the device's committed configuration
    listing,      \* local variable listing of main()
    fetched,      \* history: the listing exactly as refreshall returned it
    obj_specs,    \* the six kwargs dictionaries, by prefix
    obj,          \* local variable obj of main(): the desired tree
    parent,       \* the children of the pandevice parent
    idx,          \* position of the loop over class_specs (1-based)
    resp,         \* the result the run reports
    calls,        \* history: the remote calls this run has issued, in order
    devBefore,    \* history: the device as it was when this run started
    results       \* history: one record per finished run

vars == <<module, args, run, pc, params, device, saved, listing, fetched,
          obj_specs, obj, parent, idx, resp, calls, devBefore, results>>

\* Number of successive invocations of the module that are explored.
MaxRuns == 2

(***************************************************************************)
(* Values of options: Python's None, str, int and bool stay distinct, so   *)
(* that "" and 0 are not None.                                             *)
(***************************************************************************)
None == <<"none">>
VStr(s) == <<"str", s>>
VInt(i) == <<"int", i>>
VBool(b) == <<"bool", b>>

\* Python truthiness of an option value, as in "if commit and ...".
Truthy(v) ==
    /\ v # None
    /\ v # VStr("")
    /\ v # VInt(0)
    /\ v # VBool(FALSE)

\* str.startswith
StartsWith(s, p) == Len(s) >= Len(p) /\ SubSeq(s, 1, Len(p)) = p

\* "p in s"
RECURSIVE Contains(_, _)
Contains(s, p) ==
    IF Len(s) < Len(p) THEN FALSE
    ELSE StartsWith(s, p) \/ Contains(SubSeq(s, 2, Len(s)), p)

\* str.replace(old, new): every non-overlapping occurrence, left to right.
RECURSIVE Replace(_, _, _)
Replace(s, old, new) ==
    IF Len(s) < Len(old) THEN s
    ELSE IF SubSeq(s, 1, Len(old)) = old
         THEN new \o Replace(SubSeq(s, Len(old) + 1, Len(s)), old, new)
         ELSE SubSeq(s, 1, 1) \o Replace(SubSeq(s, 2, Len(s)), old, new)

(***************************************************************************)
(* The argument specifications: option name |-> default (None: no default) *)
(***************************************************************************)
\* The schema default of ha2_port, and the option left without a default.
ha2_port_no_default == None

ha2_port_default == VStr("ha2-a")

setup_args ==
    [ commit |-> None,
      ha_enabled |-> VBool(TRUE),
      ha_group_id |-> VInt(1),
      ha_config_sync |-> VBool(TRUE),
      ha_peer_ip |-> None,
      ha_peer_ip_backup |-> None,
      ha_mode |-> VStr("active-passive"),
      ha_passive_link_state |-> VStr("auto"),
      ha_state_sync |-> VBool(FALSE),
      ha_ha2_keepalive |-> VBool(TRUE),
      ha_ha2_keepalive_action |-> None,
      ha_ha2_keepalive_threshold |-> None,
      ha_device_id |-> None,
      ha_session_owner_selection |-> None,
      ha_session_setup |-> None,
      ha_tentative_hold_time |-> None,
      ha_sync_qos |-> None,
      ha_sync_virtual_router |-> None,
      ha_ip_hash_key |-> None,
      ha1_ip_address |-> None,
      ha1_netmask |-> None,
      ha1_port |-> None,
      ha1_gateway |-> None,
      ha1b_ip_address |-> None,
      ha1b_netmask |-> None,
      ha1b_port |-> None,
      ha1b_gateway |-> None,
      ha2_ip_address |-> None,
      ha2_netmask |-> None,
      ha2_port |-> ha2_port_default,
      ha2_gateway |-> None,
      ha2b_ip_address |-> None,
      ha2b_netmask |-> None,
      ha2b_port |-> None,
      ha2b_gateway |-> None,
      ha3_port |-> None ]

\* sdk_params of panos_gre_tunnel (name is required and has no default).
sdk_params ==
    [ name |-> None,
      interface |-> None,
      local_address_type |-> VStr("ip"),
      local_address_value |-> None,
      peer_address |-> None,
      tunnel_interface |-> None,
      ttl |-> VInt(64),
      copy_tos |-> None,
      enable_keep_alive |-> None,
      keep_alive_interval |-> VInt(10),
      keep_alive_retry |-> VInt(3),
      keep_alive_hold_timer |-> VInt(5),
      disabled |-> None ]

\* The options get_connection adds for panos_ha: the provider, the classic
\* provider options, state, the template options and vsys.
ha_helper_spec ==
    [ provider |-> None,
      ip_address |-> None,
      username |-> None,
      password |-> None,
      api_key |-> None,
      port |-> None,
      state |-> VStr("present"),
      template |-> None,
      template_stack |-> None,
      vsys |-> None ]

\* The options get_connection adds for panos_gre_tunnel.
gre_helper_spec ==
    [ provider |-> None,
      ip_address |-> None,
      username |-> None,
      password |-> None,
      api_key |-> None,
      port |-> None,
      state |-> VStr("present"),
      template |-> None,
      template_stack |-> None ]

\* helper.argument_spec of module m.
argument_spec(m) ==
    IF m = "panos_ha" THEN setup_args @@ ha_helper_spec
    ELSE sdk_params @@ gre_helper_spec

\* AnsibleModule(argument_spec=...): module.params has every option of the
\* specification; an option the caller does not supply takes its default.
ModuleParams(m, a) ==
    [k \in DOMAIN argument_spec(m) |->
        IF k \in DOMAIN a /\ a[k] # None THEN a[k] ELSE argument_spec(m)[k]]

(***************************************************************************)
(* Parameter mapping of panos_ha.main                                      *)
(***************************************************************************)
exclude_list ==
    { "ip_address", "username", "password", "api_key", "state", "commit",
      "provider", "template", "template_stack", "vsys", "port" }

\* spec_included: module.params without the excluded items.
spec_included(p) == [k \in (DOMAIN p) \ exclude_list |-> p[k]]

\* The test that selects the keys of one kwargs dictionary, and the same
\* test done by substring instead of by prefix.
KeyMatchesAnywhere(k, prefix) == Contains(k, prefix)

KeyMatches(k, prefix) == StartsWith(k, prefix)

\* {k.replace(prefix, ""): included[k] for k in included if
\*  k.startswith(prefix)}.  No two keys of the schema give the same name;
\* if two did, one of them would win.
obj_spec(prefix, included) ==
    LET keys == {k \in DOMAIN included : KeyMatches(k, prefix)}
        name(k) == Replace(k, prefix, "")
    IN  [f \in {name(k) : k \in keys} |->
            included[CHOOSE k \in keys : name(k) = f]]

\* The prefixes of the six dictionaries, the root's first.
Prefixes == <<"ha_", "ha1_", "ha1b_", "ha2_", "ha2b_", "ha3_">>

PrefixSet == {Prefixes[i] : i \in 1..Len(Prefixes)}

\* ha_obj_spec, ha1_obj_spec, ha1b_obj_spec, ha2_obj_spec, ha2b_obj_spec and
\* ha3_obj_spec, by prefix.
all_obj_specs(p) == [pre \in PrefixSet |-> obj_spec(pre, spec_included(p))]

(***************************************************************************)
(* Object tree construction of panos_ha.main                               *)
(***************************************************************************)
class_specs ==
    << [cls |-> "HA1", prefix |-> "ha1_"],
       [cls |-> "HA1Backup", prefix |-> "ha1b_"],
       [cls |-> "HA2", prefix |-> "ha2_"],
       [cls |-> "HA2Backup", prefix |-> "ha2b_"],
       [cls |-> "HA3", prefix |-> "ha3_"] >>

\* An SDK object: its class, its fields and its children, in order.
NewObject(cls, fields) == [cls |-> cls, fields |-> fields, children |-> <<>>]

NoObject == NewObject("none", <<>>)

\* The test of a child slot: any value that is truthy, any value at all, and
\* the one of the code, any(x is not None for x in cls_spec.values()).
any_truthy(cls_spec) == \E f \in DOMAIN cls_spec : Truthy(cls_spec[f])

always_add(cls_spec) == TRUE

any_not_none(cls_spec) == \E f \in DOMAIN cls_spec : cls_spec[f] # None

\* One iteration of the loop over class_specs, on the tree o.
add_sub_obj(o, i, specs) ==
    LET cls_type == class_specs[i].cls
        cls_spec == specs[class_specs[i].prefix]
    IN  IF any_not_none(cls_spec)
        THEN [o EXCEPT !.children = Append(@, NewObject(cls_type, cls_spec))]
        ELSE o

RECURSIVE add_sub_objs(_, _, _)
add_sub_objs(o, i, specs) ==
    IF i > Len(class_specs) THEN o
    ELSE add_sub_objs(add_sub_obj(o, i, specs), i + 1, specs)

\* The tree main() builds from module.params p: the root and its children.
DesiredHA(p) ==
    LET specs == all_obj_specs(p)
    IN  add_sub_objs(NewObject("HighAvailability", specs["ha_"]), 1, specs)

\* The GreTunnel object helper.process builds from the sdk_params.
DesiredGre(p) == NewObject("GreTunnel", [k \in DOMAIN sdk_params |-> p[k]])

(***************************************************************************)
(* The shared helper: the diff and apply step (helper.apply_state) and the *)
(* reconciliation it performs                                              *)
(***************************************************************************)
Range(seq) == {seq[i] : i \in 1..Len(seq)}

\* The identity of an object: its name, or its class for an unnamed singleton.
Uid(o) == IF "name" \in DOMAIN o.fields THEN o.fields.name ELSE VStr(o.cls)

\* Positions of the listed instances with the identity of o.
Matching(o, lst) == {i \in 1..Len(lst) : Uid(lst[i]) = Uid(o)}

ChildTypes(o) == {o.children[i].cls : i \in 1..Len(o.children)}

\* The children of the existing item whose slot the desired tree o does not
\* hold, and those whose slot it holds.
OtherChildren(item, o) ==
    SelectSeq(item.children, LAMBDA c : c.cls \notin ChildTypes(o))

ScopedChildren(item, o) ==
    SelectSeq(item.children, LAMBDA c : c.cls \in ChildTypes(o))

\* The field-level and child-level comparison of an existing item with the
\* desired tree, over the slots the desired tree holds.
SameAsDesired(item, o) ==
    /\ item.fields = o.fields
    /\ Range(ScopedChildren(item, o)) = Range(o.children)

\* What the apply step decides for the desired tree o, the listing lst and the
\* requested state: the operation, and the object it writes.
ApplyPlan(o, lst, state) ==
    LET found == Matching(o, lst)
        at == IF found = {} THEN 0 ELSE CHOOSE i \in found : \A j \in found : i <= j
    IN  IF state = VStr("present")
        THEN IF found = {}
             THEN [op |-> "create", at |-> 0, write |-> o]
             ELSE IF SameAsDesired(lst[at], o)
                  THEN [op |-> "none", at |-> at, write |-> o]
                  ELSE [op |-> "update", at |-> at,
                        write |-> [o EXCEPT !.children =
                                       @ \o OtherChildren(lst[at], o)]]
        ELSE IF found = {}
             THEN [op |-> "none", at |-> 0, write |-> o]
             ELSE [op |-> "delete", at |-> at, write |-> o]

\* The device's working configuration after the planned operation.
Written(dev, plan) ==
    CASE plan.op = "create" -> Append(dev, plan.write)
      [] plan.op = "update" -> [dev EXCEPT ![plan.at] = plan.write]
      [] plan.op = "delete" ->
            [i \in 1..(Len(dev) - 1) |->
                IF i < plan.at THEN dev[i] ELSE dev[i + 1]]
      [] OTHER -> dev

\* A remote call, as recorded in the history of a run.
Call(op, ok) == [op |-> op, ok |-> ok]

ApplyOps == {"create", "update", "delete"}

\* The result of a run: what exit_json or fail_json reports.
Result(failed, changed, msg) ==
    [failed |-> failed, changed |-> changed, msg |-> msg]

\* The record kept of a finished run.
Finished(r, cs, before) ==
    [failed |-> r.failed, changed |-> r.changed, msg |-> r.msg,
     calls |-> cs, before |-> before]

(***************************************************************************)
(* Inputs: the options a caller supplies and the device's configuration    *)
(***************************************************************************)
NoArgs == [k \in {} |-> None]

RootProfiles ==
    { NoArgs,
      [ha_peer_ip |-> VStr("192.168.50.1")],
      [ha_mode |-> VStr("active-active"), ha_device_id |-> VInt(0),
       ha_session_owner_selection |-> VStr("first-packet"),
       ha_session_setup |-> VStr("first-packet")],
      [ha_mode |-> VStr("active-active"), ha_device_id |-> VInt(0),
       ha_session_owner_selection |-> VStr("primary-device"),
       ha_session_setup |-> VStr("ip-hash")] }

ActiveStandbyLinks ==
    [ha1_ip_address |-> VStr("192.168.50.2"),
     ha1_netmask |-> VStr("255.255.255.252"),
     ha1_port |-> VStr("ethernet1/1"),
     ha2_port |-> VStr("ethernet1/3")]

AllLinks ==
    [ha1_port |-> VStr("ethernet1/1"),
     ha1_ip_address |-> VStr("192.168.50.2"),
     ha1b_port |-> VStr("ethernet1/2"),
     ha1b_ip_address |-> VStr("192.168.50.6"),
     ha2_port |-> VStr("ethernet1/3"),
     ha2b_port |-> VStr("ethernet1/4"),
     ha3_port |-> VStr("ethernet1/5")]

ChildProfiles ==
    { NoArgs,
      [ha1_port |-> VStr("ethernet1/1")],
      [ha1_port |-> VStr("")],
      [ha2_ip_address |-> VStr("192.168.51.2")],
      ActiveStandbyLinks,
      AllLinks }

States == {VStr("present"), VStr("absent")}

CommitValues == {None, VBool(TRUE), VBool(FALSE)}

\* state=present with every combination of the profiles; state=absent with
\* the default root and no link or every link.
HaArgs ==
    { [state |-> VStr("present"), commit |-> c] @@ r @@ ch :
        c \in CommitValues, r \in RootProfiles, ch \in ChildProfiles }
    \cup
    { [state |-> VStr("absent"), commit |-> c] @@ ch :
        c \in CommitValues, ch \in {NoArgs, AllLinks} }

\* Configurations an earlier run of panos_ha leaves on the device.
HaDevices ==
    LET activeActive == [ha_mode |-> VStr("active-active"),
                         ha_device_id |-> VInt(0),
                         ha_session_owner_selection |-> VStr("first-packet"),
                         ha_session_setup |-> VStr("first-packet")]
        on(a) == <<DesiredHA(ModuleParams("panos_ha", a))>>
    IN  { <<>>, on(NoArgs), on(AllLinks),
          on(activeActive @@ ActiveStandbyLinks), on(activeActive @@ AllLinks) }

GreArgs ==
    { [state |-> s, name |-> VStr("myGreTunnel"), ttl |-> t, interface |-> i] :
        s \in States, t \in {None, VInt(42)},
        i \in {None, VStr("ethernet1/5")} }

GreTunnel(a) == DesiredGre(ModuleParams("panos_gre_tunnel", a))

\* Configurations earlier runs of panos_gre_tunnel leave on the device.
GreDevices ==
    LET mine == GreTunnel([name |-> VStr("myGreTunnel")])
        mine42 == GreTunnel([name |-> VStr("myGreTunnel"), ttl |-> VInt(42),
                             interface |-> VStr("ethernet1/5")])
        other == GreTunnel([name |-> VStr("otherTunnel")])
    IN  { <<>>, <<mine>>, <<mine42>>, <<other>>, <<other, mine>> }

(***************************************************************************)
(* The state machine                                                       *)
(***************************************************************************)
Init ==
    /\ module \in {"panos_ha", "panos_gre_tunnel"}
    /\ args \in IF module = "panos_ha" THEN HaArgs ELSE GreArgs
    /\ device \in IF module = "panos_ha" THEN HaDevices ELSE GreDevices
    /\ saved = device
    /\ devBefore = device
    /\ run = 1
    /\ pc = "start"
    /\ params = NoArgs
    /\ listing = <<>>
    /\ fetched = <<>>
    /\ obj_specs = NoArgs
    /\ obj = NoObject
    /\ parent = <<>>
    /\ idx = 0
    /\ resp = Result(FALSE, FALSE, "")
    /\ calls = <<>>
    /\ results = <<>>

\* module = AnsibleModule(argument_spec=helper.argument_spec, ...)
ModuleInit ==
    /\ pc = "start"
    /\ params' = ModuleParams(module, args)
    /\ pc' = "parsed"
    /\ UNCHANGED <<module, args, run, device, saved, listing, fetched,
                   obj_specs, obj, parent, idx, resp, calls, devBefore, results>>

\* What refreshall returns for one device object: session_owner_selection and
\* session_setup are not reliably read back.
Listed(o, reliable) ==
    IF reliable THEN o
    ELSE [o EXCEPT !.fields["session_owner_selection"] = None,
                   !.fields["session_setup"] = None]

\* listing = HighAvailability.refreshall(parent, add=False)
RefreshallOk ==
    /\ module = "panos_ha"
    /\ pc = "parsed"
    /\ \E reliable \in BOOLEAN :
          listing' = [i \in 1..Len(device) |-> Listed(device[i], reliable)]
    /\ fetched' = listing'
    /\ calls' = Append(calls, Call("refreshall", TRUE))
    /\ pc' = "fetched"
    /\ UNCHANGED <<module, args, run, params, device, saved, obj_specs, obj,
                   parent, idx, resp, devBefore, results>>

\* refreshall raises PanDeviceError and the failure is swallowed: main() goes
\* on with an empty listing.
RefreshallFailNoExit ==
    /\ module = "panos_ha"
    /\ pc = "parsed"
    /\ calls' = Append(calls, Call("refreshall", FALSE))
    /\ listing' = <<>>
    /\ fetched' = <<>>
    /\ pc' = "fetched"
    /\ UNCHANGED <<module, args, run, params, device, saved, obj_specs, obj,
                   parent, idx, resp, devBefore, results>>

\* refreshall raises PanDeviceError: module.fail_json(msg="Failed refresh: ...")
RefreshallFail ==
    /\ module = "panos_ha"
    /\ pc = "parsed"
    /\ calls' = Append(calls, Call("refreshall", FALSE))
    /\ resp' = Result(TRUE, FALSE, "Failed refresh")
    /\ results' = Append(results, Finished(resp', calls', devBefore))
    /\ pc' = "failed"
    /\ UNCHANGED <<module, args, run, params, device, saved, listing, fetched,
                   obj_specs, obj, parent, idx, devBefore>>

\* spec_included and the six kwargs dictionaries.
MapParams ==
    /\ module = "panos_ha"
    /\ pc = "fetched"
    /\ obj_specs' = all_obj_specs(params)
    /\ pc' = "mapped"
    /\ UNCHANGED <<module, args, run, params, device, saved, listing, fetched,
                   obj, parent, idx, resp, calls, devBefore, results>>

\* obj = HighAvailability(**ha_obj_spec)
CreateObj ==
    /\ pc = "mapped"
    /\ obj' = NewObject("HighAvailability", obj_specs["ha_"])
    /\ idx' = 1
    /\ pc' = "building"
    /\ UNCHANGED <<module, args, run, params, device, saved, listing, fetched,
                   obj_specs, parent, resp, calls, devBefore, results>>

\* for cls_type, cls_spec in class_specs: one iteration.
AddSubObj ==
    /\ pc = "building"
    /\ idx <= Len(class_specs)
    /\ obj' = add_sub_obj(obj, idx, obj_specs)
    /\ idx' = idx + 1
    /\ UNCHANGED <<module, args, run, pc, params, device, saved, listing,
                   fetched, obj_specs, parent, resp, calls, devBefore, results>>

\* The loop is left after its first iteration.
LoopDoneEarly == idx > 1

LoopDone == idx > Len(class_specs)

\* parent.add(obj)
ParentAdd ==
    /\ pc = "building"
    /\ LoopDone
    /\ parent' = Append(parent, obj)
    /\ pc' = "attached"
    /\ UNCHANGED <<module, args, run, params, device, saved, listing, fetched,
                   obj_specs, obj, idx, resp, calls, devBefore, results>>

\* The listing after the two assignments under "if listing:", and two slips
\* of them: none done, and a third field copied as well.
carved_none(lst, o) == lst

carved_more(lst, o) ==
    IF lst # <<>>
    THEN [lst EXCEPT
            ![1].fields["session_owner_selection"] =
                o.fields["session_owner_selection"],
            ![1].fields["session_setup"] = o.fields["session_setup"],
            ![1].fields["mode"] = o.fields["mode"]]
    ELSE lst

carved(lst, o) ==
    IF lst # <<>>
    THEN [lst EXCEPT
            ![1].fields["session_owner_selection"] =
                o.fields["session_owner_selection"],
            ![1].fields["session_setup"] = o.fields["session_setup"]]
    ELSE lst

CarveOut ==
    /\ pc = "attached"
    /\ listing' = carved(listing, obj)
    /\ pc' = "carved"
    /\ UNCHANGED <<module, args, run, params, device, saved, fetched,
                   obj_specs, obj, parent, idx, resp, calls, devBefore, results>>

\* resp = helper.apply_state(obj, listing, module): nothing to do, or the one
\* create, update or delete succeeds.
ApplyStateOk ==
    /\ pc = "carved"
    /\ LET plan == ApplyPlan(obj, listing, params.state)
       IN  /\ device' = Written(device, plan)
           /\ calls' = IF plan.op = "none" THEN calls
                       ELSE Append(calls, Call(plan.op, TRUE))
           /\ resp' = Result(FALSE, plan.op # "none", "")
    /\ pc' = "applied"
    /\ UNCHANGED <<module, args, run, params, saved, listing, fetched,
                   obj_specs, obj, parent, idx, devBefore, results>>

\* The device rejects the create, update or delete: the run fails.
ApplyStateFail ==
    /\ pc = "carved"
    /\ LET plan == ApplyPlan(obj, listing, params.state)
       IN  /\ plan.op # "none"
           /\ calls' = Append(calls, Call(plan.op, FALSE))
    /\ resp' = Result(TRUE, FALSE, "Failed apply")
    /\ results' = Append(results, Finished(resp', calls', devBefore))
    /\ pc' = "failed"
    /\ UNCHANGED <<module, args, run, params, device, saved, listing, fetched,
                   obj_specs, obj, parent, idx, devBefore>>

\* The condition of the commit, and the condition without its second half.
commit_if_requested == Truthy(params.commit)

commit_wanted == Truthy(params.commit) /\ resp.changed

\* helper.commit(module) succeeds.
CommitOk ==
    /\ pc = "applied"
    /\ commit_wanted
    /\ saved' = device
    /\ calls' = Append(calls, Call("commit", TRUE))
    /\ pc' = "exiting"
    /\ UNCHANGED <<module, args, run, params, device, listing, fetched,
                   obj_specs, obj, parent, idx, resp, devBefore, results>>

\* helper.commit(module) fails: the run reports the commit error and what the
\* apply step changed; nothing is undone.
CommitFail ==
    /\ pc = "applied"
    /\ commit_wanted
    /\ calls' = Append(calls, Call("commit", FALSE))
    /\ resp' = Result(TRUE, resp.changed, "Failed commit")
    /\ results' = Append(results, Finished(resp', calls', devBefore))
    /\ pc' = "failed"
    /\ UNCHANGED <<module, args, run, params, device, saved, listing, fetched,
                   obj_specs, obj, parent, idx, devBefore>>

\* No commit: the condition is false.
CommitSkip ==
    /\ pc = "applied"
    /\ ~commit_wanted
    /\ pc' = "exiting"
    /\ UNCHANGED <<module, args, run, params, device, saved, listing, fetched,
                   obj_specs, obj, parent, idx, resp, calls, devBefore, results>>

\* resp["msg"] = "Done"; module.exit_json(**resp)
ExitJson ==
    /\ pc = "exiting"
    /\ resp' = [resp EXCEPT !.msg = "Done"]
    /\ results' = Append(results, Finished(resp', calls, devBefore))
    /\ pc' = "done"
    /\ UNCHANGED <<module, args, run, params, device, saved, listing, fetched,
                   obj_specs, obj, parent, idx, calls, devBefore>>

\* panos_gre_tunnel: helper.process(module) lists the tunnels, builds the
\* desired GreTunnel and applies the state.
GreProcessOk ==
    /\ module = "panos_gre_tunnel"
    /\ pc = "parsed"
    /\ listing' = device
    /\ fetched' = device
    /\ obj' = DesiredGre(params)
    /\ LET plan == ApplyPlan(obj', listing', params.state)
       IN  /\ device' = Written(device, plan)
           /\ calls' = IF plan.op = "none"
                       THEN Append(calls, Call("refreshall", TRUE))
                       ELSE calls \o <<Call("refreshall", TRUE),
                                       Call(plan.op, TRUE)>>
           /\ resp' = Result(FALSE, plan.op # "none", "Done")
    /\ results' = Append(results, Finished(resp', calls', devBefore))
    /\ pc' = "done"
    /\ UNCHANGED <<module, args, run, params, saved, obj_specs, parent, idx,
                   devBefore>>

\* panos_gre_tunnel: the listing call fails.
GreFetchFail ==
    /\ module = "panos_gre_tunnel"
    /\ pc = "parsed"
    /\ calls' = Append(calls, Call("refreshall", FALSE))
    /\ resp' = Result(TRUE, FALSE, "Failed refresh")
    /\ results' = Append(results, Finished(resp', calls', devBefore))
    /\ pc' = "failed"
    /\ UNCHANGED <<module, args, run, params, device, saved, listing, fetched,
                   obj_specs, obj, parent, idx, devBefore>>

\* panos_gre_tunnel: the device rejects the create, update or delete.
GreApplyFail ==
    /\ module = "panos_gre_tunnel"
    /\ pc = "parsed"
    /\ listing' = device
    /\ fetched' = device
    /\ obj' = DesiredGre(params)
    /\ LET plan == ApplyPlan(obj', listing', params.state)
       IN  /\ plan.op # "none"
           /\ calls' = calls \o <<Call("refreshall", TRUE),
                                  Call(plan.op, FALSE)>>
    /\ resp' = Result(TRUE, FALSE, "Failed apply")
    /\ results' = Append(results, Finished(resp', calls', devBefore))
    /\ pc' = "failed"
    /\ UNCHANGED <<module, args, run, params, device, saved, obj_specs,
                   parent, idx, devBefore>>

\* The same module is invoked again with the same options, on the same
\* device, after the previous invocation has ended.
NextRun ==
    /\ pc \in {"done", "failed"}
    /\ run < MaxRuns
    /\ run' = run + 1
    /\ pc' = "start"
    /\ params' = NoArgs
    /\ listing' = <<>>
    /\ fetched' = <<>>
    /\ obj_specs' = NoArgs
    /\ obj' = NoObject
    /\ parent' = <<>>
    /\ idx' = 0
    /\ resp' = Result(FALSE, FALSE, "")
    /\ calls' = <<>>
    /\ devBefore' = device
    /\ UNCHANGED <<module, args, device, saved, results>>

Next ==
    \/ ModuleInit
    \/ RefreshallOk
    \/ RefreshallFail
    \/ MapParams
    \/ CreateObj
    \/ AddSubObj
    \/ ParentAdd
    \/ CarveOut
    \/ ApplyStateOk
    \/ ApplyStateFail
    \/ CommitOk
    \/ CommitFail
    \/ CommitSkip
    \/ ExitJson
    \/ GreProcessOk
    \/ GreFetchFail
    \/ GreApplyFail
    \/ NextRun

Spec == Init /\ [][Next]_vars

(***************************************************************************)
(* Properties                                                              *)
(***************************************************************************)
IsHa == module = "panos_ha"

Present == args.state = VStr("present")

\* The positions of the calls of a history that are among ops.
CallsOf(cs, ops) == {i \in 1..Len(cs) : cs[i].op \in ops}

\* The two fields the listing does not reliably return.
UnreliableFields ==
    IF IsHa THEN {"session_owner_selection", "session_setup"} ELSE {}

\* The configuration before holds no object with the identity of d, or one
\* that differs from d in a field that is reliably listed or in a child of a
\* slot d holds.
DiffersInScope(before, d) ==
    \/ Matching(d, before) = {}
    \/ \E i \in Matching(d, before) :
          /\ \A j \in Matching(d, before) : i <= j
          /\ \/ \E f \in (DOMAIN d.fields) \ UnreliableFields :
                   before[i].fields[f] # d.fields[f]
             \/ Range(ScopedChildren(before[i], d)) # Range(d.children)

\* A run with state=present has just ended normally, and so had the run
\* before it: obj is the desired object of both.
TwoRunsDone ==
    /\ Present
    /\ pc = "done"
    /\ run >= 2
    /\ Len(results) = run
    /\ ~results[run - 1].failed

C2_CommitGating ==
    IsHa =>
    /\ Cardinality(CallsOf(calls, {"commit"})) <= 1
    /\ \A i \in CallsOf(calls, {"commit"}) :
          /\ pc \in {"exiting", "done", "failed"}
          /\ i = Len(calls)
          /\ \E j \in 1..(i - 1) : calls[j].op \in ApplyOps /\ calls[j].ok
          /\ resp.changed
          /\ params.commit = VBool(TRUE)
    /\ (pc \in {"exiting", "done"})
         => (CallsOf(calls, {"commit"}) # {}
               <=> (resp.changed /\ params.commit = VBool(TRUE)))

C2_Witness ==
    /\ IsHa
    /\ pc = "done"
    /\ calls[Len(calls)] = Call("commit", TRUE)
    /\ resp.changed

\* C3: when HighAvailability.refreshall fails, the run of panos_ha ends with
\* the failure message, issues no create, update, delete or commit, and leaves
\* the device's configuration as it was before the run.
C3_FetchFailureFatal ==
    (IsHa /\ \E i \in 1..Len(calls) : calls[i] = Call("refreshall", FALSE))
    => /\ pc = "failed"
       /\ resp = Result(TRUE, FALSE, "Failed refresh")
       /\ CallsOf(calls, ApplyOps \cup {"commit"}) = {}
       /\ device = devBefore
       /\ obj = NoObject

C3_Witness ==
    /\ IsHa
    /\ calls = <<Call("refreshall", FALSE)>>
    /\ devBefore # <<>>
    /\ pc = "failed"

Built == IsHa /\ pc = "attached"

\* A key without its leading prefix.
Stripped(k, prefix) == SubSeq(k, Len(prefix) + 1, Len(k))

\* The options of module.params that belong to the slot of a prefix.
SlotKeys(prefix) == {k \in DOMAIN setup_args : StartsWith(k, prefix)}

\* The children of a tree that are of a class.
ChildrenOf(o, cls) == {c \in Range(o.children) : c.cls = cls}

\* C5: when the tree of panos_ha is built, each of the five child slots holds
\* a child if and only if one of the slot's options is not None ("" and 0 are
\* not None); the child is single and each of its fields is the value of the
\* slot's option of that name, None included.
C5_OptionalChildren ==
    Built =>
    \A i \in 1..Len(class_specs) :
        LET slot == class_specs[i]
            keys == SlotKeys(slot.prefix)
            kids == ChildrenOf(obj, slot.cls)
        IN  /\ kids # {} <=> \E k \in keys : params[k] # None
            /\ Cardinality(kids) <= 1
            /\ Len(obj.children) = Cardinality(ChildTypes(obj))
            /\ \A c \in kids :
                  /\ DOMAIN c.fields = {Stripped(k, slot.prefix) : k \in keys}
                  /\ \A k \in keys :
                        c.fields[Stripped(k, slot.prefix)] = params[k]

C5_Witness ==
    /\ Built
    /\ "ha1_port" \in DOMAIN args
    /\ args.ha1_port = VStr("")
    /\ ChildrenOf(obj, "HA1") =
          { NewObject("HA1", [ip_address |-> None, netmask |-> None,
                              port |-> VStr(""), gateway |-> None]) }
    /\ ChildrenOf(obj, "HA1Backup") = {}
    /\ ChildrenOf(obj, "HA3") = {}

\* The run has updated the existing HA object.
Updated == IsHa /\ \E i \in 1..Len(calls) : calls[i] = Call("update", TRUE)

\* C6: when a run of panos_ha updates the existing HA object, every child the
\* object had before the run whose slot has no option set in this run is
\* still a child of the object on the device.
C6_OutOfScopeChildrenKept ==
    Updated =>
    \A i \in 1..Len(class_specs) :
        (\A k \in SlotKeys(class_specs[i].prefix) : params[k] = None)
        => ChildrenOf(device[1], class_specs[i].cls)
             = ChildrenOf(devBefore[1], class_specs[i].cls)

C6_Witness ==
    /\ Updated
    /\ devBefore[1].fields.peer_ip # device[1].fields.peer_ip
    /\ params.ha3_port = None
    /\ params.ha1b_port = None
    /\ ChildrenOf(devBefore[1], "HA3") # {}
    /\ ChildrenOf(device[1], "HA3") = ChildrenOf(devBefore[1], "HA3")
    /\ ChildrenOf(device[1], "HA1Backup") # {}

\* C7: when panos_ha has mapped its parameters, every option that is not
\* excluded starts with exactly one of the six prefixes, and the dictionary of
\* each prefix holds exactly the options that start with it, each under its
\* name without the leading prefix and with its value, no two under one name.
C7_PrefixPartition ==
    (IsHa /\ pc = "mapped") =>
    LET keys == (DOMAIN params) \ exclude_list
        of(prefix) == {k \in keys : StartsWith(k, prefix)}
    IN  /\ DOMAIN params = DOMAIN argument_spec("panos_ha")
        /\ \A k \in keys :
              Cardinality({prefix \in PrefixSet : StartsWith(k, prefix)}) = 1
        /\ \A prefix \in PrefixSet :
              /\ DOMAIN obj_specs[prefix]
                    = {Stripped(k, prefix) : k \in of(prefix)}
              /\ Cardinality(DOMAIN obj_specs[prefix])
                    = Cardinality(of(prefix))
              /\ \A k \in of(prefix) :
                    obj_specs[prefix][Stripped(k, prefix)] = params[k]

C7_Witness ==
    /\ IsHa
    /\ pc = "mapped"
    /\ "ha2_keepalive" \in DOMAIN obj_specs["ha_"]
    /\ obj_specs["ha_"]["ha2_keepalive"] = params.ha_ha2_keepalive
    /\ DOMAIN obj_specs["ha2_"] = {"ip_address", "netmask", "port", "gateway"}
    /\ DOMAIN obj_specs["ha3_"] = {"port"}

\* The object before agrees with the tree o in everything but, possibly,
\* session_owner_selection and session_setup.
SameButUnreliable(before, o) ==
    /\ before.cls = o.cls
    /\ before.children = o.children
    /\ DOMAIN before.fields = DOMAIN o.fields
    /\ \A f \in (DOMAIN o.fields) \ UnreliableFields :
          before.fields[f] = o.fields[f]

\* C8: when panos_ha calls the apply step, a listing that was fetched empty
\* is empty, and otherwise its first instance has the desired object's
\* session_owner_selection and session_setup and is in everything else as it
\* was fetched, as is the rest of the listing; and a device object that
\* differs from the desired one in those two fields only gives changed=false.
C8_CarveOut ==
    IsHa =>
    /\ pc = "carved" =>
          /\ Len(listing) = Len(fetched)
          /\ \A i \in 2..Len(listing) : listing[i] = fetched[i]
          /\ listing # <<>> =>
                /\ listing[1].fields.session_owner_selection
                      = obj.fields.session_owner_selection
                /\ listing[1].fields.session_setup = obj.fields.session_setup
                /\ SameButUnreliable(listing[1], fetched[1])
    /\ (pc = "applied" /\ params.state = VStr("present") /\ devBefore # <<>>
          /\ SameButUnreliable(devBefore[1], obj))
       => ~resp.changed /\ device = devBefore

C8_Witness ==
    /\ IsHa
    /\ pc = "applied"
    /\ params.state = VStr("present")
    /\ devBefore # <<>>
    /\ SameButUnreliable(devBefore[1], obj)
    /\ devBefore[1].fields.session_setup # obj.fields.session_setup
    /\ fetched[1].fields.session_setup # listing[1].fields.session_setup
    /\ ~resp.changed

\* The tree of the run is complete: the loop over class_specs has ended, the
\* root has the root's kwargs, every slot with a value that is not None has
\* its child, and the tree is in the parent.
TreeComplete ==
    /\ idx > Len(class_specs)
    /\ obj.cls = "HighAvailability"
    /\ obj.fields = obj_specs["ha_"]
    /\ \A i \in 1..Len(class_specs) :
          LET cls_spec == obj_specs[class_specs[i].prefix]
          IN  (\E f \in DOMAIN cls_spec : cls_spec[f] # None)
              => NewObject(class_specs[i].cls, cls_spec) \in Range(obj.children)
    /\ parent = <<obj>>

\* C9: in a run of panos_ha, from the fetch until the apply step is entered
\* (while the parameters are mapped and the tree is built and added to the
\* parent) the one successful fetch is the only remote call issued; the apply
\* step is entered, and any create, update, delete or commit issued, only
\* with the tree complete and in the parent; and a run fetches the listing
\* once.
C9_BuildBeforeCompare ==
    IsHa =>
    /\ pc \in {"fetched", "mapped", "building", "attached", "carved"}
          => calls = <<Call("refreshall", TRUE)>>
    /\ (\/ pc \in {"carved", "applied", "exiting", "done"}
        \/ CallsOf(calls, ApplyOps \cup {"commit"}) # {})
          => TreeComplete
    /\ Cardinality(CallsOf(calls, {"refreshall"})) <= 1
    /\ pc \in {"done", "failed"}
          => CallsOf(calls, {"refreshall"}) = {1}

C9_Witness ==
    /\ IsHa
    /\ pc = "applied"
    /\ Len(obj.children) = Len(class_specs)
    /\ calls = <<Call("refreshall", TRUE), Call("update", TRUE)>>

\* The caller supplies none of the options of the slot of a prefix.
NoneSupplied(prefix) ==
    \A k \in SlotKeys(prefix) : k \notin DOMAIN args \/ args[k] = None

\* C10: when the caller of panos_ha supplies no ha2_* option, the built tree
\* still holds an HA2 child, with port "ha2-a" and its other fields None;
\* each of HA1, HA1Backup, HA2Backup and HA3 is absent when the caller
\* supplies none of its options.
C10_Ha2AlwaysBuilt ==
    Built =>
    /\ NoneSupplied("ha2_") =>
          ChildrenOf(obj, "HA2") =
              { NewObject("HA2", [ip_address |-> None, netmask |-> None,
                                  port |-> VStr("ha2-a"), gateway |-> None]) }
    /\ \A i \in 1..Len(class_specs) :
          (class_specs[i].cls # "HA2" /\ NoneSupplied(class_specs[i].prefix))
          => ChildrenOf(obj, class_specs[i].cls) = {}

C10_Witness ==
    /\ Built
    /\ \A i \in 1..Len(class_specs) : NoneSupplied(class_specs[i].prefix)
    /\ Len(obj.children) = 1
    /\ obj.children[1].cls = "HA2"
    /\ obj.children[1].fields.port = VStr("ha2-a")

====
